---- MODULE Spec2Model ----
(***************************************************************************)
(* SensorStream server core: the WebSocket hub and REST handlers of        *)
(* server/routes.ts over the in-memory MemStorage.                          *)
(*                                                                         *)
(* Scheduling follows the Node.js event loop.  A handler runs              *)
(* synchronously up to its first `await`; the code after an `await` is a   *)
(* continuation placed at the tail of the FIFO microtask queue.  Every     *)
(* promise MemStorage returns is already resolved, so the queue is drained *)
(* before the next event-loop callback (socket event, HTTP request, timer) *)
(* starts.  The one exception is a burst: several WebSocket frames that    *)
(* arrived in one chunk of one connection are dispatched back-to-back      *)
(* before any continuation runs.                                           *)
(***************************************************************************)
EXTENDS Integers, Sequences, FiniteSets, TLC

(* ---------------------------- bounds ----------------------------------- *)
MaxEvents == 6
MaxReadings == 2
MaxTime == 1
MaxLimit == 3
MaxPredictionId == 2
MaxSockets == 3
MaxIntervals == 3
MaxFrames == 4
MaxSensorChanges == 2
MaxGlobalIntervals == 3

(* connection objects, named in the order in which the server accepts them *)
ConnOrder == <<"c1", "c2">>
Conns == {ConnOrder[i] : i \in 1..Len(ConnOrder)}
Devices == {"A", "B"}
(* the components that call useGlobalStreaming *)
Instances == {"h1", "h2"}
Names == {"n1"}
Null == "null"

Min(a, b) == IF a < b THEN a ELSE b
Max(a, b) == IF a > b THEN a ELSE b

(* An optional number or vector is a sequence: None when absent (undefined or
   null), <<n>> for a number, <<x, y, z>> for a vector. *)
None == <<>>
(* sample payloads a client may submit (message.data / request body) *)
NoData == [accelerometer |-> None, magnetometer |-> None, orientation |-> None,
           lightLevel |-> None, airPressure |-> None]
Payloads == {[NoData EXCEPT !.accelerometer = <<1, 98, 0>>]}

VARIABLES
  readyState,      \* ws.readyState of every connection object
  sendThrows,      \* connections whose socket write currently throws
  deviceId,        \* the closure variable `deviceId` of each connection
  clients,         \* Map<string, WebSocket>, in insertion order
  devices,         \* MemStorage.devices, in insertion order
  sensorReadings,  \* MemStorage.sensorReadings, in insertion order
  now,             \* the server clock read by new Date()
  microtasks,      \* FIFO queue of continuations waiting behind an await
  burst,           \* connection whose received chunk is being dispatched
  events,          \* number of event-loop callbacks dispatched so far
  timers,          \* pending setTimeout(broadcastDeviceList) callbacks
  sent,            \* history: every sensor-update broadcast, in order
  lastList,        \* history: the last device-list broadcast
  lastBound,       \* history: the connection that last registered each device ID
  inbound,         \* history: the WebSocket message the latest step dispatched, if any
  res,             \* history: the response of the last REST request
  analyzing,       \* analysis requests waiting for the Gemini call to settle
  predictions,     \* the stored location predictions, in creation order
  reply,           \* history: the Gemini outcome the latest step received, if any
  confirming,      \* history: the latest confirm request and its place among the events
  requested,       \* history: the latest analysis request and its place among the events
  sockets,         \* page: readyState of every WebSocket the hook created, in order
  wsRef,           \* page: wsRef.current, the index of a socket, 0 for null
  isConnected,     \* page: the hook's isConnected state
  mounted,         \* page: whether the device page (and with it the hook) is mounted
  reconnects,      \* page: pending setTimeout(connect, 3000) callbacks
  isRegistered,    \* page: isRegistered
  isStreaming,     \* page: isStreaming
  isActive,        \* page: isActive of useSensors
  sensorData,      \* page: the version of useSensors' sensorData object
  intervals,       \* page: every interval the streaming effect created, in order
  cleanup,         \* page: the interval the effect's pending cleanup closes over, 0 for none
  frames,          \* the messages the page sent, in order, with the socket of each
  sensorStreaming, \* localStorage item 'sensorStreaming'
  isGlobalStreamingActive,  \* use-global-streaming.tsx module variable
  globalStreamingInterval,  \* use-global-streaming.tsx module variable, 0 for null
  intervalRef,     \* intervalRef.current of every instance of the global hook
  globalIntervals, \* every interval startGlobalStreaming created, in order
  ticked           \* history: the global interval whose callback the latest step ran

serverVars == <<readyState, sendThrows, deviceId, clients, devices, sensorReadings,
                now, microtasks, burst, events, timers, sent, lastList, lastBound,
                inbound, res, analyzing, predictions, reply, confirming,
                requested>>
pageVars == <<sockets, wsRef, isConnected, mounted, reconnects, isRegistered,
              isStreaming, isActive, sensorData, intervals, cleanup, frames>>
globalVars == <<isGlobalStreamingActive, globalStreamingInterval, intervalRef,
                globalIntervals, ticked>>
clientVars == <<pageVars, globalVars, sensorStreaming>>
vars == <<serverVars, clientVars>>
predictorVars == <<analyzing, predictions, reply, confirming, requested>>

(* ------------------------- generic helpers ------------------------------ *)
Range(s) == {s[i] : i \in 1..Len(s)}

Count(s, x) == Cardinality({i \in 1..Len(s) : s[i] = x})

(* Array.prototype.slice(0, end) *)
Slice(s, end) ==
  LET e == IF end < 0 THEN Max(Len(s) + end, 0) ELSE Min(end, Len(s))
  IN SubSeq(s, 1, e)

(* Array.prototype.sort with comparator b.key - a.key: descending, stable *)
RECURSIVE InsertDesc(_, _, _)
InsertDesc(s, x, key) ==
  IF s = <<>> THEN <<x>>
  ELSE IF Head(s)[key] >= x[key] THEN <<Head(s)>> \o InsertDesc(Tail(s), x, key)
  ELSE <<x>> \o s

RECURSIVE SortDesc(_, _)
SortDesc(s, key) ==
  IF s = <<>> THEN <<>>
  ELSE InsertDesc(SortDesc(SubSeq(s, 1, Len(s) - 1), key), s[Len(s)], key)

(* Map.prototype.set on a map kept as a sequence of [key, value] entries *)
MapHas(m, k) == \E i \in 1..Len(m) : m[i].key = k
MapGet(m, k) == m[CHOOSE i \in 1..Len(m) : m[i].key = k].value
(* a set that adds an entry even when the key is present *)
MapSetAppending(m, k, v) == Append(m, [key |-> k, value |-> v])
MapSet(m, k, v) ==
  IF MapHas(m, k)
  THEN [i \in 1..Len(m) |-> IF m[i].key = k THEN [key |-> k, value |-> v] ELSE m[i]]
  ELSE Append(m, [key |-> k, value |-> v])
MapDelete(m, k) == SelectSeq(m, LAMBDA e : e.key # k)
MapValues(m) == [i \in 1..Len(m) |-> m[i].value]

(* JavaScript `x || null`: on an optional number or vector, and on a string *)
OrNull(x) == IF x = None \/ x = <<0>> THEN None ELSE x
StrOrNull(x) == IF x = Null \/ x = "" THEN Null ELSE x

(* ------------------------------ MemStorage ------------------------------ *)
(* an absent device is None, a present one <<device>> *)
getDevice(devs, id) == IF MapHas(devs, id) THEN <<MapGet(devs, id)>> ELSE None

(* a listing in insertion order, without the sort *)
getDevicesUnsorted(devs) == MapValues(devs)
getDevices(devs) == SortDesc(MapValues(devs), "lastSeen")

(* a creation that stamps the record with the epoch instead of the clock *)
createDeviceStale(devs, insertDevice, t) ==
  LET device == [id |-> insertDevice.id,
                 name |-> insertDevice.name,
                 userAgent |-> StrOrNull(insertDevice.userAgent),
                 lastSeen |-> 0,
                 isActive |-> "true",
                 batteryLevel |-> None,
                 connectionQuality |-> "good"]
  IN MapSet(devs, device.id, device)
createDevice(devs, insertDevice, t) ==
  LET device == [id |-> insertDevice.id,
                 name |-> insertDevice.name,
                 userAgent |-> StrOrNull(insertDevice.userAgent),
                 lastSeen |-> t,
                 isActive |-> "true",
                 batteryLevel |-> None,
                 connectionQuality |-> "good"]
  IN MapSet(devs, device.id, device)

(* an update that creates the record when the ID is unknown *)
updateDeviceCreating(devs, id, updates, t) ==
  LET device == IF MapHas(devs, id) THEN MapGet(devs, id)
                ELSE [id |-> id, name |-> Null, userAgent |-> Null, lastSeen |-> t,
                      isActive |-> "true", batteryLevel |-> None,
                      connectionQuality |-> "good"]
      merged == [f \in DOMAIN device |->
                   IF f = "lastSeen" THEN t
                   ELSE IF f \in DOMAIN updates THEN updates[f]
                   ELSE device[f]]
  IN MapSet(devs, id, merged)
updateDevice(devs, id, updates, t) ==
  IF ~MapHas(devs, id) THEN devs
  ELSE LET device == MapGet(devs, id)
           merged == [f \in DOMAIN device |->
                        IF f = "lastSeen" THEN t
                        ELSE IF f \in DOMAIN updates THEN updates[f]
                        ELSE device[f]]
       IN MapSet(devs, id, merged)

(* a reading whose ID does not depend on what the store holds *)
NewReadingSameId(rs, insertReading, t) ==
  [id |-> 1,
   deviceId |-> insertReading.deviceId,
   timestamp |-> t,
   accelerometer |-> OrNull(insertReading.accelerometer),
   magnetometer |-> OrNull(insertReading.magnetometer),
   orientation |-> OrNull(insertReading.orientation),
   lightLevel |-> OrNull(insertReading.lightLevel),
   airPressure |-> OrNull(insertReading.airPressure)]
NewReading(rs, insertReading, t) ==
  [id |-> Len(rs) + 1,
   deviceId |-> insertReading.deviceId,
   timestamp |-> t,
   accelerometer |-> OrNull(insertReading.accelerometer),
   magnetometer |-> OrNull(insertReading.magnetometer),
   orientation |-> OrNull(insertReading.orientation),
   lightLevel |-> OrNull(insertReading.lightLevel),
   airPressure |-> OrNull(insertReading.airPressure)]

(* a store that puts the new reading in front of the older ones *)
createSensorReadingUnshift(rs, insertReading, t) ==
  <<NewReading(rs, insertReading, t)>> \o rs

(* createSensorReading up to its await: sensorReadings.set(id, reading); the
   handlers apply updateDevice(reading.deviceId, {}) in the same step *)
createSensorReading(rs, insertReading, t) == Append(rs, NewReading(rs, insertReading, t))

getRecentReadings(rs, id, limit) ==
  Slice(SortDesc(SelectSeq(rs, LAMBDA r : r.deviceId = id), "timestamp"), limit)

getLatestReading(rs, id) ==
  LET readings == getRecentReadings(rs, id, 1)
  IN IF readings = <<>> THEN None ELSE <<readings[1]>>

(* ------------------------------ the hub --------------------------------- *)
(* the device IDs whose entry of `clients` holds connection c *)
BoundIds(c) == {clients[i].key : i \in {j \in 1..Len(clients) : clients[j].value = c}}
OpenConns == {c \in Conns : readyState[c] = "OPEN"}

(* clients.forEach of broadcastToAll: entries are visited in insertion order, a
   client that is not OPEN is skipped, and a send that throws leaves forEach *)
RECURSIVE forEachSend(_)
forEachSend(entries) ==
  IF entries = <<>> THEN [to |-> <<>>, threw |-> FALSE]
  ELSE LET client == Head(entries).value
       IN IF readyState[client] = "OPEN"
          THEN IF sendThrows[client]
               THEN [to |-> <<>>, threw |-> TRUE]
               ELSE LET rest == forEachSend(Tail(entries))
                    IN [to |-> <<client>> \o rest.to, threw |-> rest.threw]
          ELSE forEachSend(Tail(entries))

(* broadcastToAll(message): the record of one call, as kept in the history:
   the message, the connections written in order, whether a send threw, and
   what was open and how many readings were stored when it ran *)
broadcastToAll(message) ==
  LET out == forEachSend(clients)
  IN [msg |-> message, to |-> out.to, threw |-> out.threw, open |-> OpenConns,
      stored |-> Len(sensorReadings)]

SensorUpdate(id, reading) == [type |-> "sensor-update", deviceId |-> id, reading |-> reading]
DeviceList(devs) == [type |-> "device-list", devices |-> devs]

(* --------------------------- location analysis -------------------------- *)
(* confidences are counted in tenths: Tenths is the confidence 1 *)
Tenths == 10
(* what the Gemini call can come to: it throws, answers with empty text, with
   text that is not JSON, or with a JSON object whose prediction may be a
   label outside the enum or missing (Null) and whose confidence may be out of
   range or not a number (None) *)
GeminiReply(kind, prediction, confidence, reasoning) ==
  [kind |-> kind, prediction |-> prediction, confidence |-> confidence,
   reasoning |-> reasoning]
NoReply == GeminiReply(Null, Null, None, Null)
GeminiReplies ==
  {GeminiReply(k, Null, None, Null) : k \in {"throws", "empty", "unparseable"}}
    \cup {GeminiReply("json", l, c, "model reasoning") :
            l \in {"outdoor", "garden", Null},
            c \in {None, <<0 - 1>>, <<0>>, <<7>>, <<Tenths>>, <<Tenths + 1>>}}

Analysis(threw, prediction, confidence, reasoning) ==
  [threw |-> threw, prediction |-> prediction, confidence |-> confidence,
   reasoning |-> reasoning]
(* gemini-service.ts 81-88: the catch returns a fallback response *)
FallbackAnalysis == Analysis(FALSE, "indoor", <<1>>, "Unable to analyze sensor data reliably")

(* a validation that checks the label and that the confidence is a number,
   but not its range *)
isValidAnalysisAnyNumber(result) ==
  /\ result.prediction \in {"indoor", "outdoor"}
  /\ result.confidence # None
(* gemini-service.ts 74-81: the two checks after JSON.parse *)
isValidAnalysis(result) ==
  /\ result.prediction \in {"indoor", "outdoor"}
  /\ result.confidence # None
  /\ result.confidence[1] >= 0 /\ result.confidence[1] <= Tenths

(* an analysis without the catch: a failure reaches the caller as a throw *)
analyzeRethrowing(r) ==
  IF r.kind = "json" /\ isValidAnalysis(r)
  THEN Analysis(FALSE, r.prediction, r.confidence, r.reasoning)
  ELSE Analysis(TRUE, Null, None, Null)
(* analyzeLocationFromSensorData, given what its Gemini call came to *)
analyzeLocationFromSensorData(r) ==
  IF r.kind = "json" /\ isValidAnalysis(r)
  THEN Analysis(FALSE, r.prediction, r.confidence, r.reasoning)
  ELSE FallbackAnalysis

(* storage.createLocationPrediction: a new record with a server-assigned ID,
   the creation time and an unset confirmation *)
createLocationPrediction(ps, insertPrediction, t) ==
  Append(ps, [id |-> Len(ps) + 1,
              deviceId |-> insertPrediction.deviceId,
              prediction |-> insertPrediction.prediction,
              confidence |-> insertPrediction.confidence,
              sensorDataSnapshot |-> insertPrediction.sensorDataSnapshot,
              timestamp |-> t,
              userConfirmation |-> Null,
              actualLocation |-> Null,
              confirmedAt |-> None])
(* storage.updateLocationPrediction: the prediction with this ID takes the
   confirmation and its time; with no such prediction nothing is written *)
updateLocationPrediction(ps, id, updates, t) ==
  [i \in 1..Len(ps) |->
     IF ps[i].id = id
     THEN [ps[i] EXCEPT !.userConfirmation = updates.userConfirmation,
                        !.actualLocation = updates.actualLocation,
                        !.confirmedAt = <<t>>]
     ELSE ps[i]]
(* what updateLocationPrediction returns: the updated prediction, or nothing *)
getLocationPrediction(ps, id) == SelectSeq(ps, LAMBDA p : p.id = id)
(* a JSON value of a request body, as far as typeof and truthiness see it *)
JsValue(type, truthy) == [type |-> type, truthy |-> truthy]
(* a confirm request: its place among the events, the ID in its path, its body *)
ConfirmRequest(at, predictionId, body) ==
  [at |-> at, predictionId |-> predictionId, body |-> body]
NoConfirm == ConfirmRequest(0, 0, [isCorrect |-> JsValue("undefined", FALSE),
                                   actualLocation |-> Null])
(* an analysis request: its place among the events, the device in its path *)
AnalysisRequest(at, id) == [at |-> at, deviceId |-> id]
NoRequest == AnalysisRequest(0, Null)
(* storage.getHistoricalPredictions: the predictions of one device *)
getHistoricalPredictions(ps, id) == SelectSeq(ps, LAMBDA p : p.deviceId = id)

(* a continuation waiting in the microtask queue *)
Task(pc, c, data, reading, devs, found) ==
  [pc |-> pc, conn |-> c, data |-> data, reading |-> reading, devs |-> devs, found |-> found]

(* the message of the `at`-th event-loop callback, received on connection c *)
Inbound(at, c, type, id) == [at |-> at, conn |-> c, type |-> type, deviceId |-> id]
NoMessage == Inbound(0, Null, Null, Null)

Appending == Cardinality({i \in 1..Len(microtasks) : microtasks[i].pc = "sd_create"})
RoomForReading == Len(sensorReadings) + Appending < MaxReadings

(* an event-loop callback starts only when no continuation is waiting *)
Idle == microtasks = <<>> /\ events < MaxEvents
(* a frame of c is dispatched from an idle loop or within c's current chunk *)
CanDispatch(c) ==
  /\ readyState[c] = "OPEN"
  /\ events < MaxEvents
  /\ microtasks = <<>> \/ burst = c

Init ==
  /\ readyState = [c \in Conns |-> "NONE"]
  /\ sendThrows = [c \in Conns |-> FALSE]
  /\ deviceId = [c \in Conns |-> Null]
  /\ clients = <<>>
  /\ devices = <<>>
  /\ sensorReadings = <<>>
  /\ now = 0
  /\ microtasks = <<>>
  /\ burst = Null
  /\ events = 0
  /\ timers = 0
  /\ sent = <<>>
  /\ lastList = <<>>
  /\ lastBound = [d \in Devices |-> Null]
  /\ inbound = NoMessage
  /\ res = [route |-> Null, status |-> 0, body |-> <<>>]
  /\ analyzing = <<>>
  /\ predictions = <<>>
  /\ reply = NoReply
  /\ confirming = NoConfirm
  /\ requested = NoRequest
  /\ sockets = <<"CONNECTING">>
  /\ wsRef = 1
  /\ isConnected = FALSE
  /\ mounted = TRUE
  /\ reconnects = 0
  /\ isRegistered = FALSE
  /\ isStreaming = FALSE
  /\ isActive = FALSE
  /\ sensorData = 0
  /\ intervals = <<>>
  /\ cleanup = 0
  /\ frames = <<>>
  /\ sensorStreaming = None
  /\ isGlobalStreamingActive = FALSE
  /\ globalStreamingInterval = 0
  /\ intervalRef = [h \in Instances |-> 0]
  /\ globalIntervals = <<>>
  /\ ticked = 0

(* wss.on('connection') *)
Connect(c) ==
  /\ readyState[c] = "NONE"
  /\ \E i \in 1..Len(ConnOrder) :
       ConnOrder[i] = c /\ \A j \in 1..(i - 1) : readyState[ConnOrder[j]] # "NONE"
  /\ Idle
  /\ readyState' = [readyState EXCEPT ![c] = "OPEN"]
  /\ timers' = timers + 1
  /\ burst' = Null
  /\ events' = events + 1
  /\ inbound' = NoMessage
  /\ UNCHANGED predictorVars
  /\ UNCHANGED clientVars
  /\ UNCHANGED <<lastBound, sendThrows, deviceId, clients, devices, sensorReadings, now,
                 microtasks, sent, lastList, res>>

(* ws.on('message'), type 'register', up to `await storage.getDevice` *)
Register(c, d) ==
  /\ CanDispatch(c)
  /\ inbound' = Inbound(events + 1, c, "register", d)
  /\ UNCHANGED predictorVars
  /\ UNCHANGED clientVars
  /\ deviceId' = [deviceId EXCEPT ![c] = d]
  /\ IF d # Null
     THEN /\ clients' = MapSet(clients, d, c)
          /\ lastBound' = [lastBound EXCEPT ![d] = c]
          /\ microtasks' = Append(microtasks,
                                  Task("reg_got", c, NoData, None, <<>>, getDevice(devices, d) # None))
          /\ burst' = c
          /\ UNCHANGED timers
     ELSE /\ timers' = timers + 1
          /\ burst' = IF Idle THEN Null ELSE c
          /\ UNCHANGED <<clients, microtasks, lastBound>>
  /\ events' = events + 1
  /\ UNCHANGED <<readyState, sendThrows, devices, sensorReadings, now, sent, lastList, res>>

(* a registration that creates the record of a device it does not find *)
RegGotCreating ==
  /\ microtasks # <<>>
  /\ Head(microtasks).pc = "reg_got"
  /\ LET t == Head(microtasks)
     IN IF t.found
        THEN /\ devices' = updateDevice(devices, deviceId[t.conn], [isActive |-> "true"], now)
             /\ microtasks' = Append(Tail(microtasks), [t EXCEPT !.pc = "reg_done"])
             /\ UNCHANGED timers
        ELSE /\ timers' = timers + 1
             /\ microtasks' = Tail(microtasks)
             /\ devices' = createDevice(devices, [id |-> deviceId[t.conn], name |-> Null,
                                                  userAgent |-> Null], now)
  /\ burst' = Null
  /\ inbound' = NoMessage
  /\ UNCHANGED predictorVars
  /\ UNCHANGED clientVars
  /\ UNCHANGED <<lastBound, events, readyState, sendThrows, deviceId, clients, sensorReadings, now, sent, lastList, res>>
(* register: after getDevice, `if (device) await storage.updateDevice(...)` *)
RegGot ==
  /\ microtasks # <<>>
  /\ Head(microtasks).pc = "reg_got"
  /\ LET t == Head(microtasks)
     IN IF t.found
        THEN /\ devices' = updateDevice(devices, deviceId[t.conn], [isActive |-> "true"], now)
             /\ microtasks' = Append(Tail(microtasks), [t EXCEPT !.pc = "reg_done"])
             /\ UNCHANGED timers
        ELSE /\ timers' = timers + 1
             /\ microtasks' = Tail(microtasks)
             /\ UNCHANGED devices
  /\ burst' = Null
  /\ inbound' = NoMessage
  /\ UNCHANGED predictorVars
  /\ UNCHANGED clientVars
  /\ UNCHANGED <<lastBound, events, readyState, sendThrows, deviceId, clients, sensorReadings, now, sent, lastList, res>>

(* register: setTimeout(broadcastDeviceList, 100) *)
RegDone ==
  /\ microtasks # <<>>
  /\ Head(microtasks).pc = "reg_done"
  /\ timers' = timers + 1
  /\ microtasks' = Tail(microtasks)
  /\ burst' = Null
  /\ inbound' = NoMessage
  /\ UNCHANGED predictorVars
  /\ UNCHANGED clientVars
  /\ UNCHANGED <<lastBound, events, readyState, sendThrows, deviceId, clients, devices, sensorReadings,
                 now, sent, lastList, res>>

(* routes.ts 61-64: `{deviceId, ...message.data}`; a deviceId inside the payload
   comes later in the literal and replaces the bound one *)
streamInsert(bound, data) ==
  [deviceId |-> IF data.deviceId # Null THEN data.deviceId ELSE bound] @@ data

(* routes.ts 54-57: a sample marks the bound device active *)
markActiveOnSample(devs, id, t) ==
  updateDevice(devs, id, [isActive |-> "true", lastSeen |-> t], t)

(* a handler that takes the sample in whether or not the connection is bound *)
SensorDataUnguarded(c, data) ==
  /\ CanDispatch(c)
  /\ RoomForReading
  /\ inbound' = Inbound(events + 1, c, "sensor-data", data.deviceId)
  /\ UNCHANGED predictorVars
  /\ UNCHANGED clientVars
  /\ devices' = markActiveOnSample(devices, deviceId[c], now)
  /\ microtasks' = Append(microtasks, Task("sd_create", c, data, None, <<>>, FALSE))
  /\ burst' = c
  /\ events' = events + 1
  /\ UNCHANGED <<lastBound, readyState, sendThrows, deviceId, clients, sensorReadings, now,
                 timers, sent, lastList, res>>

(* ws.on('message'), type 'sensor-data', up to `await storage.updateDevice`;
   data.deviceId is the ID the client put inside the payload.  On a connection
   whose closure deviceId is unset the condition of line 50 is false and the
   handler returns without doing anything *)
SensorData(c, data) ==
  /\ CanDispatch(c)
  /\ inbound' = Inbound(events + 1, c, "sensor-data", data.deviceId)
  /\ UNCHANGED predictorVars
  /\ UNCHANGED clientVars
  /\ IF deviceId[c] # Null
     THEN /\ RoomForReading
          /\ devices' = markActiveOnSample(devices, deviceId[c], now)
          /\ microtasks' = Append(microtasks, Task("sd_create", c, data, None, <<>>, FALSE))
          /\ burst' = c
     ELSE /\ burst' = IF microtasks = <<>> THEN Null ELSE c
          /\ UNCHANGED <<devices, microtasks>>
  /\ events' = events + 1
  /\ UNCHANGED <<lastBound, readyState, sendThrows, deviceId, clients, sensorReadings, now,
                 timers, sent, lastList, res>>

(* ws.on('message') with text JSON.parse rejects (the catch logs it) or with a
   type that is neither 'register' nor 'sensor-data' (no branch is taken) *)
BadMessage(c, kind) ==
  /\ CanDispatch(c)
  /\ inbound' = Inbound(events + 1, c, kind, Null)
  /\ UNCHANGED predictorVars
  /\ UNCHANGED clientVars
  /\ burst' = IF microtasks = <<>> THEN Null ELSE c
  /\ events' = events + 1
  /\ UNCHANGED <<lastBound, readyState, sendThrows, deviceId, clients, devices, sensorReadings,
                 now, microtasks, timers, sent, lastList, res>>

(* sensor-data: storage.createSensorReading({deviceId, ...message.data}) up to
   its inner `await this.updateDevice` *)
SdCreate ==
  /\ microtasks # <<>>
  /\ Head(microtasks).pc = "sd_create"
  /\ LET t == Head(microtasks)
         insertReading == streamInsert(deviceId[t.conn], t.data)
         reading == NewReading(sensorReadings, insertReading, now)
     IN /\ sensorReadings' = createSensorReading(sensorReadings, insertReading, now)
        /\ devices' = updateDevice(devices, reading.deviceId, <<>>, now)
        /\ microtasks' = Append(Tail(microtasks),
                                [t EXCEPT !.pc = "sd_inner", !.reading = <<reading>>])
  /\ burst' = Null
  /\ inbound' = NoMessage
  /\ UNCHANGED predictorVars
  /\ UNCHANGED clientVars
  /\ UNCHANGED <<lastBound, events, readyState, sendThrows, deviceId, clients, now, timers, sent, lastList, res>>

(* sensor-data: createSensorReading returns the reading *)
SdInner ==
  /\ microtasks # <<>>
  /\ Head(microtasks).pc = "sd_inner"
  /\ microtasks' = Append(Tail(microtasks), [Head(microtasks) EXCEPT !.pc = "sd_bcast"])
  /\ burst' = Null
  /\ inbound' = NoMessage
  /\ UNCHANGED predictorVars
  /\ UNCHANGED clientVars
  /\ UNCHANGED <<lastBound, events, readyState, sendThrows, deviceId, clients, devices, sensorReadings,
                 now, timers, sent, lastList, res>>

(* sensor-data: broadcastToAll, then setTimeout(broadcastDeviceList, 100); a
   throw of broadcastToAll lands in the handler's catch *)
SdBroadcast ==
  /\ microtasks # <<>>
  /\ Head(microtasks).pc = "sd_bcast"
  /\ LET t == Head(microtasks)
         b == broadcastToAll(SensorUpdate(deviceId[t.conn], t.reading[1]))
     IN /\ sent' = Append(sent, b)
        /\ timers' = IF b.threw THEN timers ELSE timers + 1
  /\ microtasks' = Tail(microtasks)
  /\ burst' = Null
  /\ inbound' = NoMessage
  /\ UNCHANGED predictorVars
  /\ UNCHANGED clientVars
  /\ UNCHANGED <<lastBound, events, readyState, sendThrows, deviceId, clients, devices, sensorReadings,
                 now, lastList, res>>

(* the socket leaves OPEN (peer close frame, network loss) before 'close' fires *)
SocketClosing(c) ==
  /\ readyState[c] = "OPEN"
  /\ Idle
  /\ readyState' = [readyState EXCEPT ![c] = "CLOSING"]
  /\ burst' = Null
  /\ events' = events + 1
  /\ inbound' = NoMessage
  /\ UNCHANGED predictorVars
  /\ UNCHANGED clientVars
  /\ UNCHANGED <<lastBound, sendThrows, deviceId, clients, devices, sensorReadings, now,
                 microtasks, timers, sent, lastList, res>>

(* a close handler that marks the device inactive and forgets clients.delete *)
CloseEventKeepsBinding(c) ==
  /\ readyState[c] = "CLOSING"
  /\ Idle
  /\ readyState' = [readyState EXCEPT ![c] = "CLOSED"]
  /\ IF deviceId[c] # Null
     THEN /\ devices' = updateDevice(devices, deviceId[c], [isActive |-> "false"], now)
          /\ microtasks' = <<Task("close_done", c, NoData, None, <<>>, FALSE)>>
          /\ UNCHANGED clients
     ELSE UNCHANGED <<clients, devices, microtasks>>
  /\ burst' = Null
  /\ events' = events + 1
  /\ inbound' = NoMessage
  /\ UNCHANGED predictorVars
  /\ UNCHANGED clientVars
  /\ UNCHANGED <<lastBound, sendThrows, deviceId, sensorReadings, now, timers, sent, lastList, res>>

(* a close handler that looks its device ID up in the binding table by socket *)
closingIdFromTable(c) ==
  IF BoundIds(c) # {} THEN CHOOSE k \in BoundIds(c) : TRUE ELSE deviceId[c]
(* routes.ts 19, 94: the close handler reads the connection's closure deviceId *)
closingId(c) == deviceId[c]

(* ws.on('close') up to `await storage.updateDevice` *)
CloseEvent(c) ==
  /\ readyState[c] = "CLOSING"
  /\ Idle
  /\ readyState' = [readyState EXCEPT ![c] = "CLOSED"]
  /\ IF closingId(c) # Null
     THEN /\ clients' = MapDelete(clients, closingId(c))
          /\ devices' = updateDevice(devices, closingId(c), [isActive |-> "false"], now)
          /\ microtasks' = <<Task("close_done", c, NoData, None, <<>>, FALSE)>>
     ELSE UNCHANGED <<clients, devices, microtasks>>
  /\ burst' = Null
  /\ events' = events + 1
  /\ inbound' = NoMessage
  /\ UNCHANGED predictorVars
  /\ UNCHANGED clientVars
  /\ UNCHANGED <<lastBound, sendThrows, deviceId, sensorReadings, now, timers, sent, lastList, res>>

(* broadcastDeviceList() up to `await storage.getDevices()` *)
broadcastDeviceList == Task("dl_send", Null, NoData, None, getDevices(devices), FALSE)

(* a close handler that ends without calling broadcastDeviceList *)
CloseDoneSilent ==
  /\ microtasks # <<>>
  /\ Head(microtasks).pc = "close_done"
  /\ microtasks' = Tail(microtasks)
  /\ burst' = Null
  /\ inbound' = NoMessage
  /\ UNCHANGED predictorVars
  /\ UNCHANGED clientVars
  /\ UNCHANGED <<lastBound, events, readyState, sendThrows, deviceId, clients, devices, sensorReadings,
                 now, timers, sent, lastList, res>>

(* close: broadcastDeviceList(), not awaited *)
CloseDone ==
  /\ microtasks # <<>>
  /\ Head(microtasks).pc = "close_done"
  /\ microtasks' = Append(Tail(microtasks), broadcastDeviceList)
  /\ burst' = Null
  /\ inbound' = NoMessage
  /\ UNCHANGED predictorVars
  /\ UNCHANGED clientVars
  /\ UNCHANGED <<lastBound, events, readyState, sendThrows, deviceId, clients, devices, sensorReadings,
                 now, timers, sent, lastList, res>>

(* a timer callback that also sweeps: it marks every device inactive *)
TimerFireSweeping ==
  /\ timers > 0
  /\ Idle
  /\ timers' = timers - 1
  /\ devices' = [i \in 1..Len(devices) |->
                   [devices[i] EXCEPT !.value.isActive = "false"]]
  /\ microtasks' = <<Task("dl_send", Null, NoData, None, getDevices(devices'), FALSE)>>
  /\ burst' = Null
  /\ events' = events + 1
  /\ inbound' = NoMessage
  /\ UNCHANGED predictorVars
  /\ UNCHANGED clientVars
  /\ UNCHANGED <<lastBound, readyState, sendThrows, deviceId, clients, sensorReadings,
                 now, sent, lastList, res>>

(* a setTimeout(async () => { await broadcastDeviceList() }) callback fires *)
TimerFire ==
  /\ timers > 0
  /\ Idle
  /\ timers' = timers - 1
  /\ microtasks' = <<broadcastDeviceList>>
  /\ burst' = Null
  /\ events' = events + 1
  /\ inbound' = NoMessage
  /\ UNCHANGED predictorVars
  /\ UNCHANGED clientVars
  /\ UNCHANGED <<lastBound, readyState, sendThrows, deviceId, clients, devices, sensorReadings,
                 now, sent, lastList, res>>

(* broadcastDeviceList after getDevices: broadcastToAll({type: 'device-list'}) *)
DeviceListSend ==
  /\ microtasks # <<>>
  /\ Head(microtasks).pc = "dl_send"
  /\ lastList' = <<broadcastToAll(DeviceList(Head(microtasks).devs))>>
  /\ microtasks' = Tail(microtasks)
  /\ burst' = Null
  /\ inbound' = NoMessage
  /\ UNCHANGED predictorVars
  /\ UNCHANGED clientVars
  /\ UNCHANGED <<lastBound, events, readyState, sendThrows, deviceId, clients, devices, sensorReadings,
                 now, timers, sent, res>>

(* POST /api/devices *)
PostDevice(insertDevice) ==
  /\ Idle
  /\ devices' = createDevice(devices, insertDevice, now)
  /\ microtasks' = <<Task("dl_send", Null, NoData, None, getDevices(devices'), FALSE)>>
  /\ res' = [route |-> "POST /api/devices", status |-> 200,
             body |-> getDevice(devices', insertDevice.id)]
  /\ burst' = Null
  /\ events' = events + 1
  /\ inbound' = NoMessage
  /\ UNCHANGED predictorVars
  /\ UNCHANGED clientVars
  /\ UNCHANGED <<lastBound, readyState, sendThrows, deviceId, clients, sensorReadings, now,
                 timers, sent, lastList>>

(* POST /api/sensor-readings up to the await inside createSensorReading *)
PostSensorReading(insertReading) ==
  /\ Idle
  /\ RoomForReading
  /\ LET reading == NewReading(sensorReadings, insertReading, now)
     IN /\ sensorReadings' = createSensorReading(sensorReadings, insertReading, now)
        /\ devices' = updateDevice(devices, reading.deviceId, <<>>, now)
        /\ microtasks' = <<Task("fb_inner", Null, insertReading, <<reading>>, <<>>, FALSE)>>
  /\ burst' = Null
  /\ events' = events + 1
  /\ inbound' = NoMessage
  /\ UNCHANGED predictorVars
  /\ UNCHANGED clientVars
  /\ UNCHANGED <<lastBound, readyState, sendThrows, deviceId, clients, now, timers, sent, lastList, res>>

(* fallback: createSensorReading returns the reading *)
FbInner ==
  /\ microtasks # <<>>
  /\ Head(microtasks).pc = "fb_inner"
  /\ microtasks' = Append(Tail(microtasks), [Head(microtasks) EXCEPT !.pc = "fb_bcast"])
  /\ burst' = Null
  /\ inbound' = NoMessage
  /\ UNCHANGED predictorVars
  /\ UNCHANGED clientVars
  /\ UNCHANGED <<lastBound, events, readyState, sendThrows, deviceId, clients, devices, sensorReadings,
                 now, timers, sent, lastList, res>>

(* fallback: broadcastToAll, then res.json(reading); a throw lands in the
   route's catch, which answers 500 *)
FbBroadcast ==
  /\ microtasks # <<>>
  /\ Head(microtasks).pc = "fb_bcast"
  /\ LET reading == Head(microtasks).reading[1]
         b == broadcastToAll(SensorUpdate(reading.deviceId, reading))
     IN /\ sent' = Append(sent, b)
        /\ res' = IF b.threw
                  THEN [route |-> "POST /api/sensor-readings", status |-> 500, body |-> <<>>]
                  ELSE [route |-> "POST /api/sensor-readings", status |-> 200,
                        body |-> <<reading>>]
  /\ microtasks' = Tail(microtasks)
  /\ burst' = Null
  /\ inbound' = NoMessage
  /\ UNCHANGED predictorVars
  /\ UNCHANGED clientVars
  /\ UNCHANGED <<lastBound, events, readyState, sendThrows, deviceId, clients, devices, sensorReadings,
                 now, timers, lastList>>

(* environment: the socket of an open connection starts failing its writes *)
SendFault(c) ==
  /\ readyState[c] = "OPEN"
  /\ ~sendThrows[c]
  /\ Idle
  /\ sendThrows' = [sendThrows EXCEPT ![c] = TRUE]
  /\ burst' = Null
  /\ events' = events + 1
  /\ inbound' = NoMessage
  /\ UNCHANGED predictorVars
  /\ UNCHANGED clientVars
  /\ UNCHANGED <<lastBound, readyState, deviceId, clients, devices, sensorReadings, now,
                 microtasks, timers, sent, lastList, res>>

(* environment: a millisecond passes *)
Tick ==
  /\ now < MaxTime
  /\ Idle
  /\ now' = now + 1
  /\ burst' = Null
  /\ events' = events + 1
  /\ inbound' = NoMessage
  /\ UNCHANGED predictorVars
  /\ UNCHANGED clientVars
  /\ UNCHANGED <<lastBound, readyState, sendThrows, deviceId, clients, devices, sensorReadings,
                 microtasks, timers, sent, lastList, res>>

BadKinds == {"unparseable", "unknown-type"}
StreamData == {[deviceId |-> d] @@ p : d \in Devices \cup {Null}, p \in Payloads}
InsertReadings == {[deviceId |-> d] @@ p : d \in Devices, p \in Payloads}
InsertDevices == {[id |-> d, name |-> n, userAgent |-> Null] : d \in Devices, n \in Names}

(* what one sample does when its handler runs alone from the current state:
   the reading stored, the record the registry then holds for device id, and
   the broadcasts the handler emits or schedules *)
StreamingOutcome(c, data, id) ==
  LET devs1 == markActiveOnSample(devices, deviceId[c], now)
      reading == NewReading(sensorReadings, streamInsert(deviceId[c], data), now)
      devs2 == updateDevice(devs1, reading.deviceId, <<>>, now)
  IN [reading |-> reading,
      device |-> getDevice(devs2, id),
      broadcasts |-> <<SensorUpdate(deviceId[c], reading), DeviceList(getDevices(devs2))>>]
FallbackOutcome(insertReading, id) ==
  LET reading == NewReading(sensorReadings, insertReading, now)
      devs1 == updateDevice(devices, reading.deviceId, <<>>, now)
  IN [reading |-> reading,
      device |-> getDevice(devs1, id),
      broadcasts |-> <<SensorUpdate(reading.deviceId, reading)>>]

Next ==
  \/ \E c \in Conns : Connect(c)
  \/ \E c \in Conns, d \in Devices \cup {Null} : Register(c, d)
  \/ RegGot
  \/ RegDone
  \/ \E c \in Conns, data \in StreamData : SensorData(c, data)
  \/ \E c \in Conns, kind \in BadKinds : BadMessage(c, kind)
  \/ SdCreate
  \/ SdInner
  \/ SdBroadcast
  \/ \E c \in Conns : SocketClosing(c)
  \/ \E c \in Conns : CloseEvent(c)
  \/ CloseDone
  \/ TimerFire
  \/ DeviceListSend
  \/ \E insertDevice \in InsertDevices : PostDevice(insertDevice)
  \/ \E insertReading \in InsertReadings : PostSensorReading(insertReading)
  \/ FbInner
  \/ FbBroadcast
  \/ \E c \in Conns : SendFault(c)
  \/ Tick

Spec == Init /\ [][Next]_vars

(* ------------- the registry driven through its own interface ------------- *)
(* IStorage.updateDevice called with a Partial<Device> that reports the
   battery level or the connection quality of a device *)
StorageUpdate(id, updates) ==
  /\ Idle
  /\ devices' = updateDevice(devices, id, updates, now)
  /\ burst' = Null
  /\ events' = events + 1
  /\ inbound' = NoMessage
  /\ UNCHANGED predictorVars
  /\ UNCHANGED clientVars
  /\ UNCHANGED <<lastBound, readyState, sendThrows, deviceId, clients, sensorReadings, now,
                 microtasks, timers, sent, lastList, res>>

Battery == <<80>>
DeviceUpdates == {[batteryLevel |-> Battery], [connectionQuality |-> "poor"],
                  [batteryLevel |-> Battery, connectionQuality |-> "poor"],
                  [connectionQuality |-> "poor", lastSeen |-> 0]}
RegistryInserts ==
  {[id |-> d, name |-> n, userAgent |-> Null] : d \in Devices, n \in {"n1", "n2"}}

RegistryNext ==
  \/ \E insertDevice \in RegistryInserts : PostDevice(insertDevice)
  \/ DeviceListSend
  \/ \E id \in Devices, updates \in DeviceUpdates : StorageUpdate(id, updates)
  \/ Tick

(* ---------------- the analysis route beside the reading store ------------- *)
HistoryLimit == 30
AnalyzeRoute == "POST /api/devices/:deviceId/predictions/analyze"

(* an analysis route that calls Gemini whether or not the device has readings *)
AnalyzeRequestUnguarded(d) ==
  /\ Idle
  /\ LET recentReadings == getRecentReadings(sensorReadings, d, HistoryLimit)
     IN /\ analyzing' = Append(analyzing, [deviceId |-> d,
                                            readingsCount |-> Len(recentReadings)])
        /\ UNCHANGED res
  /\ requested' = AnalysisRequest(events + 1, d)
  /\ reply' = NoReply
  /\ burst' = Null
  /\ events' = events + 1
  /\ inbound' = NoMessage
  /\ UNCHANGED clientVars
  /\ UNCHANGED <<lastBound, readyState, sendThrows, deviceId, clients, devices, sensorReadings,
                 now, microtasks, timers, sent, lastList, predictions, confirming>>
(* POST .../predictions/analyze up to the Gemini call: 400 when the device has
   no reading; the learning context read from getHistoricalPredictions only
   feeds the prompt *)
AnalyzeRequest(d) ==
  /\ Idle
  /\ LET recentReadings == getRecentReadings(sensorReadings, d, HistoryLimit)
     IN IF Len(recentReadings) = 0
        THEN /\ res' = [route |-> AnalyzeRoute, status |-> 400, body |-> <<>>]
             /\ UNCHANGED analyzing
        ELSE /\ analyzing' = Append(analyzing, [deviceId |-> d,
                                                readingsCount |-> Len(recentReadings)])
             /\ UNCHANGED res
  /\ requested' = AnalysisRequest(events + 1, d)
  /\ reply' = NoReply
  /\ burst' = Null
  /\ events' = events + 1
  /\ inbound' = NoMessage
  /\ UNCHANGED clientVars
  /\ UNCHANGED <<lastBound, readyState, sendThrows, deviceId, clients, devices, sensorReadings,
                 now, microtasks, timers, sent, lastList, predictions, confirming>>

(* the Gemini call of the i-th waiting request settles with r: the analysis is
   stored as a prediction and answered; a throw lands in the route's catch *)
AnalyzeReply(i, r) ==
  /\ i \in 1..Len(analyzing)
  /\ Idle
  /\ LET request == analyzing[i]
         analysis == analyzeLocationFromSensorData(r)
         insertPrediction ==
           [deviceId |-> request.deviceId,
            prediction |-> analysis.prediction,
            confidence |-> analysis.confidence,
            sensorDataSnapshot |-> [readingsCount |-> request.readingsCount,
                                    reasoning |-> analysis.reasoning]]
         created == createLocationPrediction(predictions, insertPrediction, now)
     IN IF analysis.threw
        THEN /\ res' = [route |-> AnalyzeRoute, status |-> 500, body |-> <<>>]
             /\ UNCHANGED predictions
        ELSE /\ predictions' = created
             /\ res' = [route |-> AnalyzeRoute, status |-> 200,
                        body |-> <<[prediction |-> created[Len(created)],
                                    analysis |-> analysis]>>]
  /\ analyzing' = [j \in 1..(Len(analyzing) - 1) |->
                     IF j < i THEN analyzing[j] ELSE analyzing[j + 1]]
  /\ reply' = r
  /\ burst' = Null
  /\ events' = events + 1
  /\ inbound' = NoMessage
  /\ UNCHANGED clientVars
  /\ UNCHANGED <<lastBound, readyState, sendThrows, deviceId, clients, devices, sensorReadings,
                 now, microtasks, timers, sent, lastList, confirming, requested>>

PredictionNext ==
  \/ \E insertReading \in InsertReadings : PostSensorReading(insertReading)
  \/ FbInner
  \/ FbBroadcast
  \/ \E d \in Devices : AnalyzeRequest(d)
  \/ \E i \in 1..MaxEvents, r \in GeminiReplies : AnalyzeReply(i, r)
  \/ Tick

PredictionSpec == Init /\ [][PredictionNext]_vars

(* ------------------------- the confirmation route ------------------------- *)
ConfirmRoute == "POST /api/predictions/:predictionId/confirm"
(* isCorrect may be true, false, or no boolean: a non-empty string *)
Verdicts == {JsValue("boolean", TRUE), JsValue("boolean", FALSE),
             JsValue("string", TRUE)}
ConfirmBodies ==
  {[isCorrect |-> v, actualLocation |-> l] :
     v \in Verdicts, l \in {"indoor", "outdoor", "garden", Null}}
(* prediction IDs a caller may name: the stored ones and unknown ones *)
PredictionIds == 1..MaxPredictionId

(* a validation that accepts any non-empty actualLocation *)
confirmRejectionAnyLabel(body) ==
  IF body.isCorrect.type # "boolean" THEN "isCorrect must be a boolean"
  ELSE IF body.actualLocation = Null
       THEN "actualLocation must be indoor or outdoor"
       ELSE Null
(* routes.ts 277-283: the message of the 400 answer, or Null for a valid body *)
confirmRejection(body) ==
  IF body.isCorrect.type # "boolean" THEN "isCorrect must be a boolean"
  ELSE IF body.actualLocation = Null \/ body.actualLocation \notin {"indoor", "outdoor"}
       THEN "actualLocation must be indoor or outdoor"
       ELSE Null

(* POST /api/predictions/:predictionId/confirm *)
ConfirmPrediction(predictionId, body) ==
  /\ Idle
  /\ IF confirmRejection(body) # Null
     THEN /\ res' = [route |-> ConfirmRoute, status |-> 400, body |-> <<>>]
          /\ UNCHANGED predictions
     ELSE LET updates == [userConfirmation |-> IF body.isCorrect.truthy
                                               THEN "correct" ELSE "incorrect",
                          actualLocation |-> body.actualLocation]
              updated == updateLocationPrediction(predictions, predictionId, updates, now)
              updatedPrediction == getLocationPrediction(updated, predictionId)
          IN /\ predictions' = updated
             /\ res' = IF updatedPrediction = <<>>
                       THEN [route |-> ConfirmRoute, status |-> 404, body |-> <<>>]
                       ELSE [route |-> ConfirmRoute, status |-> 200,
                             body |-> updatedPrediction]
  /\ reply' = NoReply
  /\ burst' = Null
  /\ events' = events + 1
  /\ confirming' = ConfirmRequest(events + 1, predictionId, body)
  /\ inbound' = NoMessage
  /\ UNCHANGED clientVars
  /\ UNCHANGED <<lastBound, readyState, sendThrows, deviceId, clients, devices, sensorReadings,
                 now, microtasks, timers, sent, lastList, analyzing, requested>>

(* the confirmation route sees predictions, not how Gemini came to them: one
   failed and one well-formed outcome make the predictions to confirm *)
AnsweredReplies ==
  {r \in GeminiReplies :
     r.kind = "throws" \/ (r.prediction = "outdoor" /\ r.confidence = <<7>>)}

ConfirmationNext ==
  \/ \E insertReading \in InsertReadings : PostSensorReading(insertReading)
  \/ FbInner
  \/ FbBroadcast
  \/ \E d \in Devices : AnalyzeRequest(d)
  \/ \E i \in 1..MaxEvents, r \in AnsweredReplies : AnalyzeReply(i, r)
  \/ \E predictionId \in PredictionIds, body \in ConfirmBodies :
       ConfirmPrediction(predictionId, body)

ConfirmationSpec == Init /\ [][ConfirmationNext]_vars

RegistrySpec == Init /\ [][RegistryNext]_vars

(* ------------- the reading store fed through the request path ------------- *)
(* request bodies with a light level of 0, a positive one or none, and with an
   all-zero acceleration vector or none *)
Dark == <<0>>
Lit == <<5>>
AtRest == <<0, 0, 0>>
StoreInserts ==
  {[deviceId |-> d, accelerometer |-> a, magnetometer |-> None, orientation |-> None,
    lightLevel |-> l, airPressure |-> None] :
     d \in Devices, a \in {None, AtRest}, l \in {None, Dark, Lit}}

StoreNext ==
  \/ \E insertReading \in StoreInserts : PostSensorReading(insertReading)
  \/ FbInner
  \/ FbBroadcast
  \/ Tick

StoreSpec == Init /\ [][StoreNext]_vars

(* ------------------------- the device page (client) ----------------------- *)
(* the ID generateDeviceFingerprint gives this browser *)
PageDevice == "A"
(* the value handleStartSensors and the streaming effect store in localStorage *)
Saved(id, streaming) == <<[deviceId |-> id, isStreaming |-> streaming]>>
Frame(type, id, data) == [type |-> type, deviceId |-> id, data |-> data]

(* useWebSocket's sendMessage: sends on wsRef.current when it is OPEN *)
sendMessage(message) ==
  IF wsRef # 0 /\ sockets[wsRef] = "OPEN"
  THEN Append(frames, [socket |-> wsRef] @@ message)
  ELSE frames

(* clearInterval *)
clearInterval(ivs, i) ==
  IF i \in 1..Len(ivs) THEN [ivs EXCEPT ![i].alive = FALSE] ELSE ivs

(* one run of the page's streaming effect with the dependencies of the new
   render: the cleanup of the previous run first (it keeps its interval while
   localStorage holds 'sensorStreaming'), then the body *)
streamingEffect(streaming, connected, data, stored) ==
  LET cleared == IF cleanup # 0 /\ stored = None
                 THEN clearInterval(intervals, cleanup) ELSE intervals
  IN IF ~streaming \/ ~connected
     THEN [intervals |-> cleared, cleanup |-> 0, stored |-> stored]
     ELSE [intervals |-> Append(cleared, [alive |-> TRUE, data |-> data]),
           cleanup |-> Len(cleared) + 1,
           stored |-> Saved(PageDevice, TRUE)]

(* a render of the mounted page: sendMessage is a new function in every
   render, so the streaming effect runs again after each one *)
Render(streaming, connected, data, stored) ==
  LET e == streamingEffect(streaming, connected, data, stored)
  IN /\ Len(e.intervals) <= MaxIntervals
     /\ intervals' = e.intervals
     /\ cleanup' = e.cleanup
     /\ sensorStreaming' = e.stored

(* ws.onopen *)
OnOpen(s) ==
  /\ s \in 1..Len(sockets) /\ sockets[s] = "CONNECTING"
  /\ sockets' = [sockets EXCEPT ![s] = "OPEN"]
  /\ IF mounted
     THEN /\ isConnected' = TRUE
          /\ Render(isStreaming, TRUE, sensorData, sensorStreaming)
     ELSE UNCHANGED <<isConnected, intervals, cleanup, sensorStreaming>>
  /\ UNCHANGED <<wsRef, mounted, reconnects, isRegistered, isStreaming, isActive,
                 sensorData, frames>>
  /\ UNCHANGED <<serverVars, globalVars>>

(* ws.onclose: the socket is closed, by the server, the network or close() *)
OnClose(s) ==
  /\ s \in 1..Len(sockets) /\ sockets[s] # "CLOSED"
  /\ sockets' = [sockets EXCEPT ![s] = "CLOSED"]
  /\ reconnects' = reconnects + 1
  /\ IF mounted
     THEN /\ isConnected' = FALSE
          /\ Render(isStreaming, FALSE, sensorData, sensorStreaming)
     ELSE UNCHANGED <<isConnected, intervals, cleanup, sensorStreaming>>
  /\ UNCHANGED <<wsRef, mounted, isRegistered, isStreaming, isActive, sensorData, frames>>
  /\ UNCHANGED <<serverVars, globalVars>>

(* the callback of setTimeout(connect, 3000) *)
Reconnect ==
  /\ reconnects > 0
  /\ Len(sockets) < MaxSockets
  /\ reconnects' = reconnects - 1
  /\ sockets' = Append(sockets, "CONNECTING")
  /\ wsRef' = Len(sockets) + 1
  /\ UNCHANGED <<isConnected, mounted, isRegistered, isStreaming, isActive, sensorData,
                 intervals, cleanup, frames, sensorStreaming>>
  /\ UNCHANGED <<serverVars, globalVars>>

(* the page unmounts: the cleanup of the streaming effect, then the cleanup of
   the hook's effect, wsRef.current?.close() *)
Unmount ==
  /\ mounted
  /\ mounted' = FALSE
  /\ intervals' = IF cleanup # 0 /\ sensorStreaming = None
                  THEN clearInterval(intervals, cleanup) ELSE intervals
  /\ cleanup' = 0
  /\ sockets' = IF wsRef # 0 /\ sockets[wsRef] \in {"CONNECTING", "OPEN"}
                THEN [sockets EXCEPT ![wsRef] = "CLOSING"] ELSE sockets
  /\ UNCHANGED <<wsRef, isConnected, reconnects, isRegistered, isStreaming, isActive,
                 sensorData, frames, sensorStreaming>>
  /\ UNCHANGED <<serverVars, globalVars>>

(* handleRegisterDevice and the mutation's onSuccess *)
RegisterDevice ==
  /\ mounted /\ ~isRegistered /\ isConnected
  /\ Len(frames) < MaxFrames
  /\ isRegistered' = TRUE
  /\ frames' = sendMessage(Frame("register", PageDevice, None))
  /\ Render(isStreaming, isConnected, sensorData, sensorStreaming)
  /\ UNCHANGED <<sockets, wsRef, isConnected, mounted, reconnects, isStreaming, isActive,
                 sensorData>>
  /\ UNCHANGED <<serverVars, globalVars>>

(* handleStartSensors *)
StartSensors ==
  /\ mounted /\ isRegistered /\ ~isActive
  /\ Len(frames) < MaxFrames
  /\ isActive' = TRUE
  /\ isStreaming' = TRUE
  /\ frames' = IF isConnected THEN sendMessage(Frame("register", PageDevice, None))
               ELSE frames
  /\ Render(TRUE, isConnected, sensorData, Saved(PageDevice, TRUE))
  /\ UNCHANGED <<sockets, wsRef, isConnected, mounted, reconnects, isRegistered, sensorData>>
  /\ UNCHANGED <<serverVars, globalVars>>

(* handleStopSensors *)
StopSensors ==
  /\ mounted /\ isRegistered /\ isActive
  /\ isActive' = FALSE
  /\ isStreaming' = FALSE
  /\ Render(FALSE, isConnected, sensorData, None)
  /\ UNCHANGED <<sockets, wsRef, isConnected, mounted, reconnects, isRegistered, sensorData,
                 frames>>
  /\ UNCHANGED <<serverVars, globalVars>>

(* useSensors delivers a new sensorData object *)
SensorChange ==
  /\ mounted /\ isActive
  /\ sensorData < MaxSensorChanges
  /\ sensorData' = sensorData + 1
  /\ Render(isStreaming, isConnected, sensorData + 1, sensorStreaming)
  /\ UNCHANGED <<sockets, wsRef, isConnected, mounted, reconnects, isRegistered, isStreaming,
                 isActive, frames>>
  /\ UNCHANGED <<serverVars, globalVars>>

(* the callback of the i-th interval of the streaming effect: it sends the
   sensorData of the render that created it *)
IntervalTick(i) ==
  /\ i \in 1..Len(intervals) /\ intervals[i].alive
  /\ Len(frames) < MaxFrames
  /\ frames' = sendMessage(Frame("sensor-data", PageDevice, <<intervals[i].data>>))
  /\ UNCHANGED <<sockets, wsRef, isConnected, mounted, reconnects, isRegistered, isStreaming,
                 isActive, sensorData, intervals, cleanup, sensorStreaming>>
  /\ UNCHANGED <<serverVars, globalVars>>

(* the server's side of a page socket: the closure variable deviceId of the
   connection it accepted for socket s, after the first k frames the page
   sent: unset at first, then the deviceId of the last register it received *)
connectionDeviceId(fs, s, k) ==
  LET registers == {j \in 1..k : fs[j].socket = s /\ fs[j].type = "register"}
  IN IF registers = {} THEN Null
     ELSE fs[CHOOSE j \in registers : \A i \in registers : i <= j].deviceId
(* routes.ts 50: the k-th frame is a sample the server takes in *)
sampleAccepted(fs, k) ==
  /\ fs[k].type = "sensor-data"
  /\ connectionDeviceId(fs, fs[k].socket, k - 1) # Null

PageNext ==
  \/ \E s \in 1..MaxSockets : OnOpen(s)
  \/ \E s \in 1..MaxSockets : OnClose(s)
  \/ Reconnect
  \/ Unmount
  \/ RegisterDevice
  \/ StartSensors
  \/ StopSensors
  \/ SensorChange
  \/ \E i \in 1..MaxIntervals : IntervalTick(i)

PageSpec == Init /\ [][PageNext]_vars

(* ----------------------- the global streaming hook ------------------------ *)
(* the module variables and one instance's ref, as a start or a stop leaves them *)
Streaming(active, interval, ref, ivs) ==
  [active |-> active, interval |-> interval, ref |-> ref, intervals |-> ivs]

(* a start that does not look at isGlobalStreamingActive *)
startGlobalStreamingUnchecked(h) ==
  Streaming(TRUE, Len(globalIntervals) + 1,
            [intervalRef EXCEPT ![h] = Len(globalIntervals) + 1],
            Append(globalIntervals, [alive |-> TRUE, owner |-> h]))
(* startGlobalStreaming of instance h *)
startGlobalStreaming(h) ==
  IF isGlobalStreamingActive
  THEN Streaming(isGlobalStreamingActive, globalStreamingInterval, intervalRef,
                 globalIntervals)
  ELSE Streaming(TRUE, Len(globalIntervals) + 1,
                 [intervalRef EXCEPT ![h] = Len(globalIntervals) + 1],
                 Append(globalIntervals, [alive |-> TRUE, owner |-> h]))

(* stopGlobalStreaming of instance h *)
stopGlobalStreaming(h) ==
  Streaming(FALSE, 0, [intervalRef EXCEPT ![h] = 0],
            clearInterval(clearInterval(globalIntervals, globalStreamingInterval),
                          intervalRef[h]))

(* the module variables, the refs and the intervals become what `st` says *)
Becomes(st) ==
  /\ Len(st.intervals) <= MaxGlobalIntervals
  /\ isGlobalStreamingActive' = st.active
  /\ globalStreamingInterval' = st.interval
  /\ intervalRef' = st.ref
  /\ globalIntervals' = st.intervals

(* the persisted state asks for streaming *)
persistedStreaming == sensorStreaming # None /\ sensorStreaming[1].isStreaming

(* checkStreamingState of instance h, run by its effect or its 1 s interval;
   connected is the isConnected of the render it closes over *)
CheckStreamingState(h, connected) ==
  /\ IF persistedStreaming /\ connected /\ ~isGlobalStreamingActive
     THEN Becomes(startGlobalStreaming(h))
     ELSE UNCHANGED <<isGlobalStreamingActive, globalStreamingInterval, intervalRef,
                      globalIntervals>>
  /\ ticked' = 0
  /\ UNCHANGED <<serverVars, pageVars, sensorStreaming>>

(* a component calls the startGlobalStreaming its instance h returned *)
StartGlobalStreaming(h) ==
  /\ Becomes(startGlobalStreaming(h))
  /\ ticked' = 0
  /\ UNCHANGED <<serverVars, pageVars, sensorStreaming>>

(* a component calls the stopGlobalStreaming its instance h returned *)
StopGlobalStreaming(h) ==
  /\ Becomes(stopGlobalStreaming(h))
  /\ ticked' = 0
  /\ UNCHANGED <<serverVars, pageVars, sensorStreaming>>

(* streamingFunction, the callback of the k-th global interval: it stops the
   streaming when the persisted state is gone or says not streaming, and
   sends a sample otherwise *)
StreamingTick(k) ==
  /\ k \in 1..Len(globalIntervals) /\ globalIntervals[k].alive
  /\ IF ~persistedStreaming
     THEN Becomes(stopGlobalStreaming(globalIntervals[k].owner))
     ELSE UNCHANGED <<isGlobalStreamingActive, globalStreamingInterval, intervalRef,
                      globalIntervals>>
  /\ ticked' = k
  /\ UNCHANGED <<serverVars, pageVars, sensorStreaming>>

(* the values 'sensorStreaming' can hold: absent, streaming, not streaming *)
StoredStates == {None, Saved(PageDevice, TRUE), Saved(PageDevice, FALSE)}
(* localStorage.setItem / removeItem of 'sensorStreaming' by a page *)
StorageWrite(v) ==
  /\ sensorStreaming # v
  /\ sensorStreaming' = v
  /\ ticked' = 0
  /\ UNCHANGED <<isGlobalStreamingActive, globalStreamingInterval, intervalRef,
                 globalIntervals>>
  /\ UNCHANGED <<serverVars, pageVars>>

GlobalNext ==
  \/ \E h \in Instances, connected \in BOOLEAN : CheckStreamingState(h, connected)
  \/ \E h \in Instances : StartGlobalStreaming(h)
  \/ \E h \in Instances : StopGlobalStreaming(h)
  \/ \E k \in 1..MaxGlobalIntervals : StreamingTick(k)
  \/ \E v \in StoredStates : StorageWrite(v)

GlobalSpec == Init /\ [][GlobalNext]_vars

(* ======================= properties of the hub ========================== *)
(* every broadcast on record *)
Broadcasts == Range(sent) \cup Range(lastList)
(* readings stored by a handler that has not broadcast them yet *)
InFlight == {microtasks[i].reading[1] :
               i \in {j \in 1..Len(microtasks) : microtasks[j].reading # None}}
TimesBroadcast(r) == Cardinality({i \in 1..Len(sent) : sent[i].msg.reading = r})
HubConns == {clients[i].value : i \in 1..Len(clients)}
IsActive(devs, d) == MapHas(devs, d) /\ MapGet(devs, d).isActive = "true"
ReadingsOf(d) == SelectSeq(sensorReadings, LAMBDA r : r.deviceId = d)
Reverse(s) == [i \in 1..Len(s) |-> s[Len(s) + 1 - i]]
PosOf(r) == CHOOSE i \in 1..Len(sensorReadings) : sensorReadings[i] = r
(* the step that runs broadcastToAll, and the record of that call *)
BroadcastStep ==
  /\ microtasks # <<>>
  /\ Head(microtasks).pc \in {"sd_bcast", "fb_bcast", "dl_send"}
  /\ microtasks' = Tail(microtasks)
Written == IF Head(microtasks).pc = "dl_send" THEN lastList'[1] ELSE sent'[Len(sent')]

(* C1: every accepted sample is broadcast exactly once as a sensor-update, and
   that message is written to every connection open at broadcast time, whether
   or not the connection ever registered. *)
SampleReachesEveryOpenConnection ==
  /\ \A r \in Range(sensorReadings) :
       TimesBroadcast(r) = IF r \in InFlight THEN 0 ELSE 1
  /\ \A i \in 1..Len(sent) : Range(sent[i].to) = sent[i].open

(* C2: every device-list broadcast is written to every connection open at
   broadcast time, bound or not, so a connection that never registers receives
   the list its connect scheduled. *)
DeviceListReachesEveryOpenConnection ==
  \A b \in Range(lastList) : Range(b.to) = b.open

(* C3: a register of D on c makes c the binding of D; when a connection whose
   own registration of D was overwritten by a still-open connection closes, D's
   binding and D's liveness flag stay as they are. *)
LastRegistrationWins ==
  [][\A c \in Conns, d \in Devices :
       /\ (deviceId'[c] = d /\ deviceId[c] # d) =>
            (MapHas(clients', d) /\ MapGet(clients', d) = c)
       /\ ( /\ readyState[c] = "CLOSING" /\ readyState'[c] = "CLOSED"
            /\ deviceId[c] = d
            /\ MapHas(clients, d) /\ MapGet(clients, d) # c
            /\ readyState[MapGet(clients, d)] = "OPEN" ) =>
            /\ MapHas(clients', d) /\ MapGet(clients', d) = MapGet(clients, d)
            /\ IsActive(devices', d) = IsActive(devices, d)]_vars

(* C4: with retention cap C the store never holds more than C readings of one
   device, and recent(D, 2C) never returns more than C. *)
RetentionCap == MaxReadings - 1
StoreHoldsAtMostCap ==
  \A d \in Devices :
    /\ Len(ReadingsOf(d)) <= RetentionCap
    /\ Len(getRecentReadings(sensorReadings, d, 2 * RetentionCap)) <= RetentionCap

(* C5: recent(D, k) is the min(k, N) most recently appended readings of D,
   newest appended first, also among readings with equal timestamps. *)
RecentIsNewestAppendedFirst ==
  \A d \in Devices, k \in 0..MaxLimit :
    getRecentReadings(sensorReadings, d, k) =
      SubSeq(Reverse(ReadingsOf(d)), 1, Min(k, Len(ReadingsOf(d))))

(* C6: the sensor-update broadcasts of one device occur in the order in which
   their readings were appended to the store. *)
BroadcastOrderIsAppendOrder ==
  \A i, j \in 1..Len(sent) :
    (i < j /\ sent[i].msg.reading.deviceId = sent[j].msg.reading.deviceId) =>
      PosOf(sent[i].msg.reading) < PosOf(sent[j].msg.reading)
(* two handlers ran concurrently for one device: both readings were in the
   store before the first was broadcast, and both have been broadcast *)
ConcurrentSamplesOfOneDeviceBroadcast ==
  /\ Len(sent) = 2
  /\ sent[1].msg.reading.deviceId = sent[2].msg.reading.deviceId
  /\ sent[1].msg.reading # sent[2].msg.reading
  /\ sent[1].stored = 2

(* C7: no broadcast writes its message to the same connection twice. *)
AtMostOncePerConnection ==
  \A b \in Broadcasts, c \in Conns : Count(b.to, c) <= 1

(* C8: in a broadcast, a connection of the hub whose write fails (not open, or a
   throwing send) is removed from the hub, and every other open connection of
   the hub is still written the message. *)
WriteFailureIsIsolated ==
  [][BroadcastStep =>
       \A c \in HubConns :
         IF readyState[c] = "OPEN" /\ ~sendThrows[c]
         THEN c \in Range(Written.to)
         ELSE \A i \in 1..Len(clients') : clients'[i].value # c]_vars

(* C9: an observer's write failure never reaches the sender: the fallback
   request answers with the reading it stored, and the streaming handler leaves
   connections and bindings as they are. *)
ObserverFailureNeverReachesSender ==
  [][(BroadcastStep /\ Head(microtasks).pc = "fb_bcast" =>
        /\ res'.status = 200
        /\ res'.body = Head(microtasks).reading
        /\ res'.body[1] \in Range(sensorReadings'))
     /\ (BroadcastStep /\ Head(microtasks).pc = "sd_bcast" =>
           UNCHANGED <<readyState, deviceId, clients>>)]_vars

(* C10: once the close handler of every closed connection has completed, every
   device ID of the binding table maps to an open connection, and every device
   whose last bound connection has closed is inactive. *)
CloseHandlersDone ==
  /\ \A c \in Conns : readyState[c] # "CLOSING"
  /\ \A i \in 1..Len(microtasks) : microtasks[i].pc # "close_done"
NoActiveDeviceOnClosedConnection ==
  CloseHandlersDone =>
    /\ \A i \in 1..Len(clients) : readyState[clients[i].value] = "OPEN"
    /\ \A d \in Devices :
         (lastBound[d] # Null /\ readyState[lastBound[d]] = "CLOSED") =>
           ~IsActive(devices, d)

(* the step that dispatches a WebSocket message of the given type *)
MessageStep(type) == inbound' # NoMessage /\ inbound'.type = type
(* the step that resumes the handler waiting at the head of the queue at pc *)
ContinuationStep(pc) ==
  /\ microtasks # <<>> /\ Head(microtasks).pc = pc
  /\ microtasks' # microtasks /\ events' = events
(* device IDs whose entry of the binding table points at connection c *)
BoundTo(cl, c) == {cl[i].key : i \in {j \in 1..Len(cl) : cl[j].value = c}}

(* C11: when a connection bound to A registers as B, the binding table
   associates it with B only (no entry of A still points at it), it stays open,
   and the registration then activates B if B is known. *)
ReRegisterMovesTheBinding ==
  [][/\ ( /\ MessageStep("register")
          /\ inbound'.deviceId \in Devices
          /\ deviceId[inbound'.conn] \in Devices \ {inbound'.deviceId} ) =>
            /\ BoundTo(clients', inbound'.conn) = {inbound'.deviceId}
            /\ readyState'[inbound'.conn] = "OPEN"
     /\ (ContinuationStep("reg_got") /\ Head(microtasks).found) =>
            IsActive(devices', deviceId[Head(microtasks).conn])]_vars

(* C12: a streaming sample is stored under the device ID its connection is
   bound to, and the sensor-update carries that ID as its deviceId and as its
   reading's deviceId, whatever device ID the client put inside the payload. *)
StreamedSampleIsAttributedToTheBinding ==
  [][/\ ContinuationStep("sd_create") =>
            sensorReadings'[Len(sensorReadings')].deviceId = deviceId[Head(microtasks).conn]
     /\ (BroadcastStep /\ Head(microtasks).pc = "sd_bcast") =>
            /\ Written.msg.deviceId = deviceId[Head(microtasks).conn]
            /\ Written.msg.reading.deviceId = deviceId[Head(microtasks).conn]]_vars

(* C13: referential integrity: the device ID of every stored reading is the ID
   of a device of the registry, on the streaming and on the fallback path. *)
EveryReadingBelongsToARegisteredDevice ==
  \A r \in Range(sensorReadings) : MapHas(devices, r.deviceId)

(* C14: the two ingestion paths are equivalent: from one state, a sample of
   device D streamed on a connection bound to D and the same sample posted to
   the fallback route store the same reading, leave the same registry record
   of D and produce the same broadcasts. *)
IngestionPathsAreEquivalent ==
  \A c \in Conns, data \in StreamData :
    ( /\ Idle /\ RoomForReading
      /\ readyState[c] = "OPEN"
      /\ deviceId[c] \in Devices /\ data.deviceId = deviceId[c]
      /\ MapHas(devices, deviceId[c]) ) =>
        StreamingOutcome(c, data, deviceId[c]) = FallbackOutcome(data, deviceId[c])

(* the step that appends a reading to the store, on either path *)
AppendStep == Len(sensorReadings') = Len(sensorReadings) + 1
Appended == sensorReadings'[Len(sensorReadings')]

(* C15: every sample accepted for a known device D, on either path, leaves D
   active with its last-seen refreshed; a device a disconnect marked inactive
   is active again after a fallback sample. *)
AcceptedSampleActivatesItsDevice ==
  [][(AppendStep /\ MapHas(devices, Appended.deviceId)) =>
        /\ IsActive(devices', Appended.deviceId)
        /\ MapGet(devices', Appended.deviceId).lastSeen = now]_vars

(* every device other than d keeps its record and its binding over the step *)
OthersKept(d) ==
  \A k \in Devices \ {d} :
    /\ getDevice(devices', k) = getDevice(devices, k)
    /\ MapHas(clients', k) = MapHas(clients, k)
    /\ MapHas(clients, k) => MapGet(clients', k) = MapGet(clients, k)
(* the step that runs the close handler of connection c *)
CloseStep(c) == readyState[c] = "CLOSING" /\ readyState'[c] = "CLOSED"

(* C16: a register of a known device D on a connection followed by the close
   of that connection leaves D inactive and without a binding; the register,
   its continuations and the close leave the record and the binding of every
   other device as they were. *)
RegisterThenCloseTouchesOnlyItsDevice ==
  [][\A c \in Conns, d \in Devices :
       /\ (MessageStep("register") /\ inbound'.conn = c /\ inbound'.deviceId = d) =>
            (OthersKept(d) /\ MapGet(clients', d) = c)
       /\ ( /\ ContinuationStep("reg_got") \/ ContinuationStep("reg_done")
            /\ Head(microtasks).conn = c /\ deviceId[c] = d ) => OthersKept(d)
       /\ (CloseStep(c) /\ deviceId[c] = d /\ MapHas(devices, d)) =>
            /\ OthersKept(d)
            /\ ~IsActive(devices', d)
            /\ ~MapHas(clients', d)]_vars
(* c1 registered A when the registry already held A and B (the last device
   list went out while c1 was open and had no binding yet), then closed: A is
   inactive and unbound, B's record is still there and active *)
RegisteredDeviceClosedBesideAnother ==
  /\ readyState["c1"] = "CLOSED" /\ deviceId["c1"] = "A" /\ lastBound["A"] = "c1"
  /\ MapHas(devices, "A") /\ ~IsActive(devices, "A") /\ ~MapHas(clients, "A")
  /\ IsActive(devices, "B")
  /\ lastList # <<>>
  /\ lastList[1].open = {"c1"} /\ lastList[1].to = <<>>
  /\ {"A", "B"} \subseteq {lastList[1].msg.devices[i].id : i \in 1..Len(lastList[1].msg.devices)}

(* C17: a sample received on a connection that is not bound to a device is
   dropped: no reading is stored, no device record changes, no sensor-update
   or device-list broadcast is sent or scheduled, and the connection stays
   open and unbound. *)
UnboundSampleIsDropped ==
  [][(MessageStep("sensor-data") /\ deviceId[inbound'.conn] = Null) =>
        /\ UNCHANGED <<sensorReadings, devices, clients, deviceId>>
        /\ UNCHANGED <<sent, lastList, timers, microtasks>>
        /\ readyState'[inbound'.conn] = "OPEN"]_vars
(* an open connection that never registered has just sent a sample that names
   a device of the registry *)
UnboundSampleForKnownDeviceReceived ==
  /\ inbound # NoMessage /\ inbound.type = "sensor-data"
  /\ deviceId[inbound.conn] = Null /\ BoundTo(clients, inbound.conn) = {}
  /\ readyState[inbound.conn] = "OPEN"
  /\ inbound.deviceId \in Devices /\ MapHas(devices, inbound.deviceId)

(* the step that dispatches a malformed message: unparseable text, an unknown
   type, or a register without a device ID *)
MalformedStep ==
  \/ \E kind \in BadKinds : MessageStep(kind)
  \/ MessageStep("register") /\ inbound'.deviceId = Null

(* C18: a malformed inbound message is rejected as a single message: the
   connection stays open, its binding is unchanged, registry and store do not
   change, and no broadcast is sent or scheduled because of it. *)
MalformedMessageHasNoEffect ==
  [][MalformedStep =>
       /\ readyState'[inbound'.conn] = "OPEN"
       /\ UNCHANGED <<deviceId, clients>>
       /\ UNCHANGED <<devices, sensorReadings>>
       /\ UNCHANGED <<sent, lastList, timers, microtasks>>]_vars

(* the step that runs POST /api/devices for device ID id *)
CreateStep(id) ==
  /\ events' = events + 1 /\ timers' = timers
  /\ microtasks' # <<>> /\ Head(microtasks').pc = "dl_send"
  /\ res'.route = "POST /api/devices" /\ res'.body # <<>> /\ res'.body[1].id = id

(* C19: creating a device under an ID that already exists answers without
   error, takes the new name and refreshes last-seen, and keeps the battery
   level and the connection quality the record had. *)
UpsertKeepsBatteryAndQuality ==
  [][\A id \in Devices :
       (CreateStep(id) /\ MapHas(devices, id)) =>
         /\ res'.status = 200
         /\ MapGet(devices', id).name = res'.body[1].name
         /\ MapGet(devices', id).lastSeen = now
         /\ MapGet(devices', id).batteryLevel = MapGet(devices, id).batteryLevel
         /\ MapGet(devices', id).connectionQuality = MapGet(devices, id).connectionQuality]_vars

(* C20: the registry holds at most one record per device ID, the record stored
   under key k has id = k, and no step removes a record: creating, updating,
   registering, sampling and disconnecting never duplicate, re-key or delete. *)
OneRecordPerIdForever ==
  [][/\ \A i \in 1..Len(devices') : devices'[i].value.id = devices'[i].key
     /\ \A i, j \in 1..Len(devices') : devices'[i].key = devices'[j].key => i = j
     /\ \A k \in Devices : MapHas(devices, k) => MapHas(devices', k)]_vars
(* device A was created, bound by c1 and marked inactive by c1's disconnect
   (the last device list shows it inactive); no other connection ever existed,
   so the active record A now holds comes from creating it a second time *)
DeviceCreatedAgain ==
  /\ readyState["c1"] = "CLOSED" /\ readyState["c2"] = "NONE"
  /\ lastList # <<>>
  /\ \E i \in 1..Len(lastList[1].msg.devices) :
       /\ lastList[1].msg.devices[i].id = "A"
       /\ lastList[1].msg.devices[i].isActive = "false"
  /\ res.route = "POST /api/devices" /\ res.body # <<>> /\ res.body[1].id = "A"
  /\ IsActive(devices, "A")
  /\ Len(devices) = 1

(* C21: marking a device active or inactive under an ID the registry does not
   hold is a silent no-op, in updateDevice itself and in the register and
   close handlers that call it: no record is created, every record stays as
   it is, and the handler carries on (the close still clears the binding and
   goes on to its device-list broadcast). *)
UnknownDeviceMutationIsNoOp ==
  [][/\ \A d \in Devices, flag \in {"true", "false"} :
          ~MapHas(devices, d) =>
            updateDevice(devices, d, [isActive |-> flag], now) = devices
     /\ ( /\ ContinuationStep("reg_got")
          /\ ~MapHas(devices, deviceId[Head(microtasks).conn]) ) =>
            /\ devices' = devices
            /\ timers' = timers + 1 \/ Head(microtasks).found
     /\ \A c \in Conns :
          (CloseStep(c) /\ deviceId[c] # Null /\ ~MapHas(devices, deviceId[c])) =>
            /\ devices' = devices
            /\ ~MapHas(clients', deviceId[c])
            /\ microtasks' # <<>> /\ Head(microtasks').pc = "close_done"]_vars
(* c1 registered A, which the registry never held, and has closed, while the
   registry holds another device *)
UnknownDeviceConnectionClosed ==
  /\ readyState["c1"] = "CLOSED" /\ deviceId["c1"] = "A" /\ lastBound["A"] = "c1"
  /\ ~MapHas(devices, "A") /\ MapHas(devices, "B")
  /\ microtasks # <<>> /\ Head(microtasks).pc = "close_done"

(* C22: a device goes from active to inactive only in the step that runs the
   close handler of a connection bound to that device ID; timers, the passing
   of time and every other step leave an active device active, so a device
   whose connection never delivers its close event stays active. *)
OnlyCloseDeactivates ==
  [][\A d \in Devices :
       (IsActive(devices, d) /\ ~IsActive(devices', d)) =>
         /\ MapHas(devices', d)
         /\ \E c \in Conns : CloseStep(c) /\ deviceId[c] = d]_vars
(* the socket of A's connection is gone but its close event has not been
   delivered; time has passed, one of the two timers c1 set has fired and a
   device list has gone out with no connection open, and A is still active *)
DeadConnectionDeviceStillActive ==
  /\ readyState["c1"] = "CLOSING" /\ deviceId["c1"] = "A"
  /\ readyState["c2"] = "NONE" /\ timers <= 1
  /\ now = MaxTime
  /\ lastList # <<>> /\ lastList[1].open = {}
  /\ \E i \in 1..Len(lastList[1].msg.devices) :
       /\ lastList[1].msg.devices[i].id = "A"
       /\ lastList[1].msg.devices[i].isActive = "true"
  /\ IsActive(devices, "A")

(* a device-list broadcast waits in the queue with the registry as it will be
   when it is sent *)
ListQueued(q, devs) ==
  \E i \in 1..Len(q) : q[i].pc = "dl_send" /\ q[i].devs = getDevices(devs)
HasTask(q, pc, c) == \E i \in 1..Len(q) : q[i].pc = pc /\ q[i].conn = c

(* C23: every device-list change is followed by a device-list broadcast of the
   full registry as of send time: a device creation queues the broadcast, a
   register leads to a timer that queues it, the close of a bound connection
   queues it after its update, and the list sent is the registry at that
   moment. *)
DeviceListChangeIsBroadcast ==
  [][/\ (\E id \in Devices : CreateStep(id)) => ListQueued(microtasks', devices')
     /\ (MessageStep("register") /\ inbound'.deviceId # Null) =>
          HasTask(microtasks', "reg_got", inbound'.conn)
     /\ ContinuationStep("reg_got") =>
          \/ timers' = timers + 1
          \/ HasTask(microtasks', "reg_done", Head(microtasks).conn)
     /\ ContinuationStep("reg_done") => timers' = timers + 1
     /\ timers' = timers - 1 => ListQueued(microtasks', devices')
     /\ \A c \in Conns :
          (CloseStep(c) /\ deviceId[c] # Null) => HasTask(microtasks', "close_done", c)
     /\ ContinuationStep("close_done") => ListQueued(microtasks', devices')
     /\ ContinuationStep("dl_send") =>
          /\ lastList' # <<>>
          /\ lastList'[1].msg = DeviceList(getDevices(devices))]_vars
(* c1 registered A and closed; the device list sent after the close is the
   whole registry, both devices, with A inactive in it *)
DeviceListShowsTheClose ==
  /\ readyState["c1"] = "CLOSED" /\ deviceId["c1"] = "A"
  /\ microtasks = <<>>
  /\ lastList # <<>> /\ lastList[1].msg.devices = getDevices(devices)
  /\ Len(devices) = 2
  /\ \E i \in 1..Len(lastList[1].msg.devices) :
       /\ lastList[1].msg.devices[i].id = "A"
       /\ lastList[1].msg.devices[i].isActive = "false"

(* C24: the close of a connection that is not bound to a device has no
   registry effect: no device record changes (liveness flag, last-seen) and
   no binding is removed. *)
UnboundCloseHasNoRegistryEffect ==
  [][\A c \in Conns :
       (CloseStep(c) /\ deviceId[c] = Null) => UNCHANGED <<devices, clients>>]_vars
(* the unbound connection c1 has closed while c2 is bound to the active
   device A, which the registry held before c1 went away (the last device
   list, with A in it, went out while both connections were open) *)
UnboundConnectionClosedBesideBound ==
  /\ readyState["c1"] = "CLOSED" /\ deviceId["c1"] = Null
  /\ readyState["c2"] = "OPEN" /\ deviceId["c2"] = "A"
  /\ MapHas(clients, "A") /\ MapGet(clients, "A") = "c2"
  /\ IsActive(devices, "A")
  /\ lastList # <<>> /\ lastList[1].open = {"c1", "c2"}
  /\ \E i \in 1..Len(lastList[1].msg.devices) : lastList[1].msg.devices[i].id = "A"

(* C25: getDevices returns every device of the registry exactly once, ordered
   by last-seen descending as of the call. *)
ListAllIsEveryDeviceNewestFirst ==
  LET list == getDevices(devices)
  IN /\ Len(list) = Len(devices)
     /\ \A i \in 1..Len(devices) : Count(list, devices[i].value) = 1
     /\ \A i, j \in 1..Len(list) : i < j => list[i].lastSeen >= list[j].lastSeen
(* two devices, the one the registry holds first seen earlier than the other,
   so the listing is not the insertion order *)
LaterSeenDeviceListedFirst ==
  /\ Len(devices) = 2
  /\ devices[1].value.lastSeen < devices[2].value.lastSeen
  /\ getDevices(devices)[1] = devices[2].value

PayloadFields == {"accelerometer", "magnetometer", "orientation", "lightLevel", "airPressure"}
(* the sample the appending handler was given *)
Submitted ==
  IF microtasks # <<>> /\ events' = events THEN Head(microtasks).data
  ELSE microtasks'[Len(microtasks')].data

(* C26: sensor values are stored as received: every payload field of the
   stored reading equals the submitted value when one was supplied, the
   value 0 included, and is null only when the field was not supplied. *)
ValuesAreStoredAsReceived ==
  [][AppendStep => \A f \in PayloadFields : Appended[f] = Submitted[f]]_vars

(* C27: every reading has an ID of its own, and a stored reading is never
   modified or removed: each reading of the store is still in it, with the
   same ID, device ID, timestamp and payload, after every step. *)
ReadingsAreUniqueAndImmutable ==
  [][/\ \A i, j \in 1..Len(sensorReadings') :
          sensorReadings'[i].id = sensorReadings'[j].id => i = j
     /\ \A r \in Range(sensorReadings) : r \in Range(sensorReadings')]_vars
(* two samples of one device with the same payload and the same timestamp are
   both in the store and both broadcast; only their IDs tell them apart *)
TwinReadingsStored ==
  /\ Len(sensorReadings) = 2 /\ Len(sent) = 2 /\ microtasks = <<>>
  /\ sensorReadings[1].id # sensorReadings[2].id
  /\ [sensorReadings[1] EXCEPT !.id = 0] = [sensorReadings[2] EXCEPT !.id = 0]

(* C28: getLatestReading(D) is the most recently appended reading of D, the
   first element of getRecentReadings(D, 1), and is absent when D has no
   reading. *)
LatestIsLastAppended ==
  \A d \in Devices :
    /\ getLatestReading(sensorReadings, d) =
         SubSeq(getRecentReadings(sensorReadings, d, 1), 1,
                Min(1, Len(getRecentReadings(sensorReadings, d, 1))))
    /\ getLatestReading(sensorReadings, d) =
         IF ReadingsOf(d) = <<>> THEN None
         ELSE <<ReadingsOf(d)[Len(ReadingsOf(d))]>>

(* C29: every prediction an analysis request creates has a label in
   {indoor, outdoor} and a confidence in [0, 1], whatever the Gemini call
   came to. *)
PredictionsAreWellFormed ==
  \A i \in 1..Len(predictions) :
    /\ predictions[i].prediction \in {"indoor", "outdoor"}
    /\ predictions[i].confidence # None
    /\ predictions[i].confidence[1] >= 0 /\ predictions[i].confidence[1] <= Tenths
(* Gemini has just answered with well-formed JSON whose confidence is above 1,
   and the request has created a prediction all the same *)
OutOfRangeConfidenceAnswered ==
  /\ reply.kind = "json" /\ reply.prediction = "outdoor"
  /\ reply.confidence = <<Tenths + 1>>
  /\ predictions # <<>> /\ res.route = AnalyzeRoute /\ res.status = 200
  /\ res.body[1].prediction = predictions[Len(predictions)]

(* the step in which a waiting analysis request receives its Gemini outcome *)
ReplyStep == Len(analyzing') = Len(analyzing) - 1 /\ reply' # NoReply
(* the Gemini call failed: it threw, its text was empty or no JSON, its label
   is not indoor or outdoor, or its confidence is no number within [0, 1] *)
GeminiFailed(r) ==
  \/ r.kind # "json"
  \/ r.prediction \notin {"indoor", "outdoor"}
  \/ r.confidence = None
  \/ r.confidence[1] < 0
  \/ r.confidence[1] > Tenths

(* C30: when the Gemini call fails, the analysis request still succeeds: one
   prediction with the label indoor, the low confidence 0.1 and the
   explanatory reasoning is created for the device, and it is answered to the
   caller together with the fallback analysis. *)
FailedAnalysisFallsBack ==
  [][(ReplyStep /\ GeminiFailed(reply')) =>
       /\ res'.route = AnalyzeRoute /\ res'.status = 200
       /\ Len(predictions') = Len(predictions) + 1
       /\ SubSeq(predictions', 1, Len(predictions)) = predictions
       /\ LET p == predictions'[Len(predictions')]
          IN /\ p.prediction = "indoor"
             /\ p.confidence = <<1>>
             /\ p.sensorDataSnapshot.reasoning = "Unable to analyze sensor data reliably"
             /\ p.userConfirmation = Null
             /\ \E i \in 1..Len(analyzing) : p.deviceId = analyzing[i].deviceId
             /\ res'.body[1].prediction = p
             /\ res'.body[1].analysis.prediction = "indoor"
             /\ res'.body[1].analysis.confidence = <<1>>
             /\ res'.body[1].analysis.reasoning = "Unable to analyze sensor data reliably"]_vars
(* the Gemini call has just thrown, and the caller holds the fallback
   prediction *)
ThrownAnalysisAnswered ==
  /\ reply.kind = "throws"
  /\ predictions # <<>> /\ res.route = AnalyzeRoute /\ res.status = 200
  /\ res.body[1].prediction = predictions[Len(predictions)]
  /\ predictions[Len(predictions)].prediction = "indoor"

(* the step that handles a confirm request *)
ConfirmStep == confirming' # confirming
(* the request carries a boolean verdict and a label indoor or outdoor *)
ValidConfirmation(body) ==
  /\ body.isCorrect.type = "boolean"
  /\ body.actualLocation \in {"indoor", "outdoor"}

(* C31: confirmation is all-or-nothing: a confirm request with a boolean
   verdict, a label indoor or outdoor and the ID of a stored prediction sets
   that prediction's userConfirmation (correct or incorrect) and
   actualLocation together and answers it; a request with an invalid verdict
   or label (400) or an unknown ID (404, not found) changes no field of any
   prediction. *)
ConfirmationIsAllOrNothing ==
  [][ConfirmStep =>
       LET request == confirming'
           known == \E i \in 1..Len(predictions) :
                      predictions[i].id = request.predictionId
       IN IF ValidConfirmation(request.body) /\ known
          THEN /\ res'.route = ConfirmRoute /\ res'.status = 200
               /\ Len(predictions') = Len(predictions)
               /\ \A i \in 1..Len(predictions) :
                    IF predictions[i].id = request.predictionId
                    THEN /\ predictions'[i].userConfirmation =
                              (IF request.body.isCorrect.truthy
                               THEN "correct" ELSE "incorrect")
                         /\ predictions'[i].actualLocation = request.body.actualLocation
                         /\ \A f \in {"id", "deviceId", "prediction", "confidence",
                                       "sensorDataSnapshot", "timestamp"} :
                              predictions'[i][f] = predictions[i][f]
                         /\ res'.body = <<predictions'[i]>>
                    ELSE predictions'[i] = predictions[i]
          ELSE /\ predictions' = predictions
               /\ res'.route = ConfirmRoute
               /\ res'.status = (IF ValidConfirmation(request.body) THEN 404 ELSE 400)]_vars
(* the first prediction was confirmed as incorrect with the label indoor, and
   a later valid confirmation of an unknown ID has just been answered 404 *)
ConfirmedThenUnknownIdRefused ==
  /\ Len(predictions) = 1
  /\ predictions[1].userConfirmation = "incorrect"
  /\ predictions[1].actualLocation = "indoor"
  /\ confirming.predictionId = 2 /\ ValidConfirmation(confirming.body)
  /\ res.route = ConfirmRoute /\ res.status = 404

(* C32: a register message for a device ID the registry does not hold binds
   the connection to that ID and creates no device record; a sample sent on
   that connection afterwards is stored and handed to broadcastToAll as a
   sensor-update of that ID while the registry still has no record of it. *)
UnknownDeviceStreams ==
  [][ /\ \A c \in Conns, d \in Devices :
         (MessageStep("register") /\ inbound'.conn = c /\ inbound'.deviceId = d
            /\ ~MapHas(devices, d))
           => /\ deviceId'[c] = d
              /\ MapHas(clients', d) /\ MapGet(clients', d) = c
              /\ devices' = devices
              /\ HasTask(microtasks', "reg_got", c)
      /\ (ContinuationStep("reg_got") /\ ~Head(microtasks).found) => devices' = devices
      /\ \A c \in Conns :
         (MessageStep("sensor-data") /\ inbound'.conn = c /\ deviceId[c] # Null
            /\ ~MapHas(devices, deviceId[c]))
           => /\ devices' = devices
              /\ HasTask(microtasks', "sd_create", c)
      /\ \A d \in Devices :
         (ContinuationStep("sd_create") /\ deviceId[Head(microtasks).conn] = d
            /\ ~MapHas(devices, d))
           => /\ AppendStep
              /\ \A f \in PayloadFields : Appended[f] = Head(microtasks).data[f]
              /\ ~MapHas(devices', d)
              /\ microtasks'[Len(microtasks')].reading = <<Appended>>
      /\ \A d \in Devices :
         (ContinuationStep("sd_bcast") /\ deviceId[Head(microtasks).conn] = d
            /\ ~MapHas(devices, d))
           => /\ Len(sent') = Len(sent) + 1
              /\ sent'[Len(sent')].msg = SensorUpdate(d, Head(microtasks).reading[1])
              /\ Head(microtasks).reading[1] \in Range(sensorReadings')
              /\ ~MapHas(devices', d)]_vars
(* no device was ever created and no request was made, yet a sample streamed
   on the connection registered as A is stored and was broadcast to it *)
SampleOfUnregisteredDeviceBroadcast ==
  /\ devices = <<>> /\ res.route = Null
  /\ deviceId["c1"] = "A"
  /\ Len(sensorReadings) = 1 /\ sensorReadings[1].deviceId = "A"
  /\ Len(sent) = 1
  /\ sent[1].msg = SensorUpdate("A", sensorReadings[1])
  /\ sent[1].to = <<"c1">>

(* C36: a device's last-seen never decreases: every registry mutation (the
   creation, the updateDevice of a register, of a sample, of a close and of an
   append) sets it to the current server time, whatever last-seen the caller
   of updateDevice supplied. *)
LastSeenNeverDecreases ==
  [][\A d \in Devices :
       LET old == getDevice(devices, d)
           new == getDevice(devices', d)
           touched ==
             \/ CreateStep(d)
             \/ /\ ContinuationStep("reg_got") /\ Head(microtasks).found
                /\ deviceId[Head(microtasks).conn] = d
             \/ MessageStep("sensor-data") /\ deviceId[inbound'.conn] = d
             \/ \E c \in Conns : CloseStep(c) /\ deviceId[c] = d
             \/ AppendStep /\ Appended.deviceId = d
       IN /\ devices' # devices =>
               /\ (old # None /\ new # None) => new[1].lastSeen >= old[1].lastSeen
               /\ (new # None /\ new # old) => new[1].lastSeen = now
          /\ (touched /\ (old # None \/ CreateStep(d))) =>
               new # None /\ new[1].lastSeen = now]_vars
(* device A was created at time 0, as the answer to its creation still shows,
   and a sample stored after the clock moved has refreshed its last-seen *)
LastSeenMovedOnBySample ==
  /\ res.route = "POST /api/devices" /\ res.body # <<>>
  /\ res.body[1].id = "A" /\ res.body[1].lastSeen = 0
  /\ now = 1 /\ MapHas(devices, "A") /\ MapGet(devices, "A").lastSeen = 1
  /\ \E i \in 1..Len(sensorReadings) :
       sensorReadings[i].deviceId = "A" /\ sensorReadings[i].timestamp = 1

(* the step that handles an analysis request *)
RequestStep == requested' # requested

(* C37: an analysis request for a device with no stored reading creates no
   prediction and does not call Gemini: it is answered with an error and the
   prediction store is left as it was. *)
AnalysisNeedsReadings ==
  [][(RequestStep /\ ReadingsOf(requested'.deviceId) = <<>>) =>
       /\ predictions' = predictions
       /\ analyzing' = analyzing
       /\ res'.route = AnalyzeRoute /\ res'.status = 400]_vars
(* B has no reading and its analysis has just been refused, while the analysis
   of A, which has one, waits for Gemini *)
AnalysisRefusedForSilentDevice ==
  /\ requested.deviceId = "B" /\ ReadingsOf("B") = <<>>
  /\ res.route = AnalyzeRoute /\ res.status = 400
  /\ Len(analyzing) = 1 /\ analyzing[1].deviceId = "A"
  /\ predictions = <<>>

(* the streaming effect's intervals that have not been cleared *)
LiveIntervals == {i \in 1..Len(intervals) : intervals[i].alive}

(* C34: the device page keeps at most one live sample-sending interval: when
   the streaming effect runs again the interval of its previous run has been
   cleared. *)
AtMostOnePageInterval == Cardinality(LiveIntervals) <= 1

(* the hook's sockets that are connecting or open *)
LiveSockets(ss) == {i \in 1..Len(ss) : ss[i] \in {"CONNECTING", "OPEN"}}
(* every close arms one reconnect timer, and its callback opens one socket *)
ReconnectsAfterEveryClose ==
  /\ \A i \in 1..Len(sockets) :
       (mounted /\ sockets[i] # "CLOSED" /\ sockets'[i] = "CLOSED") =>
         reconnects' = reconnects + 1
  /\ reconnects' < reconnects =>
       /\ sockets' = Append(sockets, "CONNECTING")
       /\ wsRef' = Len(sockets')
(* the hook has one socket at most that is connecting or open *)
OneLiveSocket == Cardinality(LiveSockets(sockets')) <= 1
(* an unmounted hook creates no socket *)
NoSocketAfterUnmount == ~mounted => Len(sockets') = Len(sockets)

(* C35: while mounted the socket hook reconnects after every close, it holds
   at most one live socket at a time, and once it is unmounted (its cleanup
   closed the socket) it opens no further connection. *)
HookReconnectsOnlyWhileMounted ==
  [][ReconnectsAfterEveryClose /\ OneLiveSocket /\ NoSocketAfterUnmount]_vars

(* C33: after a streaming page's socket closed and the hook reconnected, the
   samples the page sends on the new socket are accepted by the server: the
   page has sent register on the new socket before them. *)
SamplesAcceptedAfterReconnect ==
  \A k \in 1..Len(frames) :
    (/\ frames[k].type = "sensor-data"
     /\ \E j \in 1..(k - 1) :
          frames[j].socket < frames[k].socket /\ sampleAccepted(frames, j))
      => sampleAccepted(frames, k)

(* the global intervals that have not been cleared *)
LiveGlobalIntervals(ivs) == {i \in 1..Len(ivs) : ivs[i].alive}

(* C38: across all instances of the global streaming hook at most one global
   interval exists: no interval is created while streaming is active, the
   active flag is true exactly when an interval is installed (the one
   globalStreamingInterval names), and the interval removes itself on its
   first tick after the persisted streaming state was removed or set to not
   streaming. *)
OneGlobalStreamingInterval ==
  [][/\ Cardinality(LiveGlobalIntervals(globalIntervals')) <= 1
     /\ isGlobalStreamingActive' <=> LiveGlobalIntervals(globalIntervals') # {}
     /\ isGlobalStreamingActive' =>
          LiveGlobalIntervals(globalIntervals') = {globalStreamingInterval'}
     /\ isGlobalStreamingActive => Len(globalIntervals') = Len(globalIntervals)
     /\ (ticked' # 0 /\ ~persistedStreaming) =>
          /\ ~globalIntervals'[ticked'].alive
          /\ ~isGlobalStreamingActive'
          /\ globalStreamingInterval' = 0]_vars
(* the interval instance h1 started has just removed itself on a tick that
   found the persisted state saying not streaming *)
GlobalIntervalRemovedItself ==
  /\ ticked = 1
  /\ globalIntervals[1].owner = "h1" /\ ~globalIntervals[1].alive
  /\ ~isGlobalStreamingActive /\ globalStreamingInterval = 0
  /\ sensorStreaming = Saved(PageDevice, FALSE)

====
